---- MODULE Spec2Model ----
(***************************************************************************)
(* Reinhardt static file server (server.py).                               *)
(*                                                                         *)
(* Text is a sequence of code points, a byte string a sequence of 0..255.  *)
(* The served directory is the relative path "r"; its entries are the      *)
(* names of Names, each absent, a directory (empty) or a regular file.     *)
(* FILESYSTEM_ENCODING is taken to be utf-8.                               *)
(***************************************************************************)
EXTENDS Integers, Sequences, FiniteSets, TLC

VARIABLES fs, pc, stream, wire, data, split, request, response,
          prevPath, prevResp

vars == <<fs, pc, stream, wire, data, split, request, response,
          prevPath, prevResp>>

(* ------------------------------ bounds --------------------------------- *)

\* number of names of NameList that may occur in the served directory
NumNames == 3

\* largest number of header lines in a request
MaxHeaders == 1

(* ---------------------------- characters ------------------------------- *)

HT == 9
LF == 10
CR == 13
SP == 32
PERCENT == 37
DOT == 46
SLASH == 47
REPLACEMENT == 65533

CRLF == <<CR, LF>>

\* b'\r\n\r\n'
TERMINATOR == <<CR, LF, CR, LF>>

\* sock.recv(BUFLEN) returns at most BUFLEN bytes
BUFLEN == 1024

\* 'utf-8'
FILESYSTEM_ENCODING == <<117, 116, 102, 45, 56>>

\* the DIR argument of the command line: 'r'
DIRECTORY == <<114>>

\* 'index.html'
INDEX_HTML == <<105, 110, 100, 101, 120, 46, 104, 116, 109, 108>>

\* ': '
HEADER_SEP == <<58, 32>>

\* 'HTTP/1.0 '
S_HTTP10 == <<72, 84, 84, 80, 47, 49, 46, 48, 32>>

\* 'Content-Type: '
S_CONTENT_TYPE == <<67, 111, 110, 116, 101, 110, 116, 45, 84, 121, 112, 101, 58, 32>>

\* 'Content-Length: '
S_CONTENT_LENGTH == <<67, 111, 110, 116, 101, 110, 116, 45, 76, 101, 110, 103, 116, 104, 58, 32>>

\* 'Not Found'
S_NOT_FOUND == <<78, 111, 116, 32, 70, 111, 117, 110, 100>>

\* 'OK'
S_OK == <<79, 75>>

\* 'text/html'
S_TEXT_HTML == <<116, 101, 120, 116, 47, 104, 116, 109, 108>>

\* 'text/plain'
S_TEXT_PLAIN == <<116, 101, 120, 116, 47, 112, 108, 97, 105, 110>>

\* 'octet/stream'
S_OCTET_STREAM == <<111, 99, 116, 101, 116, 47, 115, 116, 114, 101, 97, 109>>

\* '<h2>'
S_H2_OPEN == <<60, 104, 50, 62>>

\* '</h2>'
S_H2_CLOSE == <<60, 47, 104, 50, 62>>

\* 'Path '
S_PATH == <<80, 97, 116, 104, 32>>

\* ' doesn\'t exist'
S_DOESNT_EXIST == <<32, 100, 111, 101, 115, 110, 39, 116, 32, 101, 120, 105, 115, 116>>

\* '<meta charset="'
S_META_OPEN == <<60, 109, 101, 116, 97, 32, 99, 104, 97, 114, 115, 101, 116, 61, 34>>

\* '">'
S_QUOTE_GT == <<34, 62>>

\* '<div><a href="'
S_ANCHOR_OPEN == <<60, 100, 105, 118, 62, 60, 97, 32, 104, 114, 101, 102, 61, 34>>

\* '</a></div>'
S_ANCHOR_CLOSE == <<60, 47, 97, 62, 60, 47, 100, 105, 118, 62>>

(* --------------------------- sequence helpers -------------------------- *)

Min(a, b) == IF a < b THEN a ELSE b

Take(s, n) == SubSeq(s, 1, Min(n, Len(s)))

Drop(s, n) == SubSeq(s, Min(n, Len(s)) + 1, Len(s))

\* s.startswith(p)
StartsWith(s, p) == Len(p) <= Len(s) /\ SubSeq(s, 1, Len(p)) = p

\* s.endswith(p)
EndsWith(s, p) == Len(p) <= Len(s) /\ SubSeq(s, Len(s) - Len(p) + 1, Len(s)) = p

\* p in s
Contains(s, p) == \E i \in 1..(Len(s) - Len(p) + 1) : SubSeq(s, i, i + Len(p) - 1) = p

RECURSIVE Concat(_)
\* ''.join(parts)
Concat(parts) ==
    IF parts = <<>> THEN <<>> ELSE Head(parts) \o Concat(Tail(parts))

RECURSIVE Join(_, _)
\* sep.join(parts)
Join(sep, parts) ==
    IF parts = <<>> THEN <<>>
    ELSE IF Len(parts) = 1 THEN Head(parts)
    ELSE Head(parts) \o sep \o Join(sep, Tail(parts))

RECURSIVE SplitAcc(_, _, _)
SplitAcc(s, sep, cur) ==
    IF s = <<>> THEN <<cur>>
    ELSE IF StartsWith(s, sep)
         THEN <<cur>> \o SplitAcc(Drop(s, Len(sep)), sep, <<>>)
         ELSE SplitAcc(Tail(s), sep, Append(cur, Head(s)))

\* s.split(sep): every non-overlapping occurrence of sep, left to right,
\* separates two (possibly empty) pieces
StrSplit(s, sep) == SplitAcc(s, sep, <<>>)

RECURSIVE Digits(_)
Digits(n) == IF n < 10 THEN <<48 + n>> ELSE Append(Digits(n \div 10), 48 + (n % 10))

\* '{0}'.format(n) for a non-negative integer n
FormatInt(n) == Digits(n)

\* re.split('\r?\n', data): split at every LF, the CR right before it, if
\* any, belonging to the separator
ReSplitLines(text) ==
    LET pieces == StrSplit(text, <<LF>>)
    IN [i \in 1..Len(pieces) |->
          IF i < Len(pieces) /\ EndsWith(pieces[i], <<CR>>)
          THEN SubSeq(pieces[i], 1, Len(pieces[i]) - 1)
          ELSE pieces[i]]

(* ------------------------------ encodings ------------------------------ *)

\* s.encode('ascii') / b.decode('ascii') succeed iff every element is < 128
IsAscii(s) == \A i \in 1..Len(s) : s[i] < 128

Utf8Char(c) ==
    IF c < 128 THEN <<c>>
    ELSE IF c < 2048 THEN <<192 + (c \div 64), 128 + (c % 64)>>
    ELSE <<224 + (c \div 4096), 128 + ((c \div 64) % 64), 128 + (c % 64)>>

RECURSIVE Utf8Encode(_)
\* s.encode('utf-8'): the encodings of the characters, in order (computed
\* by halves)
Utf8Encode(s) ==
    IF s = <<>> THEN <<>>
    ELSE IF Len(s) = 1 THEN Utf8Char(s[1])
    ELSE Utf8Encode(SubSeq(s, 1, Len(s) \div 2))
         \o Utf8Encode(SubSeq(s, Len(s) \div 2 + 1, Len(s)))

IsCont(b) == b >= 128 /\ b < 192

\* a lead byte of a two-byte form, followed by its continuation byte
IsPair(b1, b2) == b1 >= 194 /\ b1 < 224 /\ IsCont(b2)

RECURSIVE Utf8DecodeReplace(_)
\* b.decode('utf-8', 'replace'), one- and two-byte forms; any other byte
\* >= 0x80 becomes U+FFFD (the requests modelled produce no lead byte
\* >= 0xE0). Computed by halves, cut between two characters
Utf8DecodeReplace(b) ==
    IF b = <<>> THEN <<>>
    ELSE IF Len(b) = 1 THEN <<IF b[1] < 128 THEN b[1] ELSE REPLACEMENT>>
    ELSE IF Len(b) = 2 /\ IsPair(b[1], b[2])
         THEN <<(b[1] - 192) * 64 + (b[2] - 128)>>
    ELSE LET m == Len(b) \div 2
             k == IF IsPair(b[m], b[m + 1]) THEN m + 1 ELSE m
         IN Utf8DecodeReplace(SubSeq(b, 1, k))
            \o Utf8DecodeReplace(SubSeq(b, k + 1, Len(b)))

IsHex(c) == (c >= 48 /\ c <= 57) \/ (c >= 65 /\ c <= 70) \/ (c >= 97 /\ c <= 102)

HexVal(c) == IF c <= 57 THEN c - 48 ELSE IF c <= 70 THEN c - 55 ELSE c - 87

RECURSIVE UnquoteToBytes(_)
\* urllib.parse.unquote_to_bytes: '%' followed by two hex digits is one
\* byte, any other '%' stays
UnquoteToBytes(s) ==
    IF s = <<>> THEN <<>>
    ELSE IF s[1] = PERCENT /\ Len(s) >= 3 /\ IsHex(s[2]) /\ IsHex(s[3])
         THEN <<16 * HexVal(s[2]) + HexVal(s[3])>> \o UnquoteToBytes(Drop(s, 3))
    ELSE <<s[1]>> \o UnquoteToBytes(Tail(s))

\* urllib.parse.unquote(s, encoding=FILESYSTEM_ENCODING) of an ASCII string
\* (errors='replace' is unquote's default)
Unquote(s) == Utf8DecodeReplace(UnquoteToBytes(s))

(* ----------------------------- file system ------------------------------ *)

\* names an entry of the served directory may have:
\* 'index.html', 'Z', U+00E9, 'b.txt', 'a'
NameList ==
    << INDEX_HTML, <<90>>, <<233>>, <<98, 46, 116, 120, 116>>, <<97>> >>

Names == {NameList[i] : i \in 1..Min(NumNames, Len(NameList))}

\* a name no directory holds: 'n'
MISSING == <<110>>

\* contents of a regular file: b'' and b'\xff\x00'
Blobs == {<<>>, <<255, 0>>}

NoNode == [kind |-> "none", content |-> <<>>]

DirNode == [kind |-> "dir", content |-> <<>>]

FileNode(b) == [kind |-> "file", content |-> b]

Nodes == {NoNode, DirNode} \cup {FileNode(b) : b \in Blobs}

\* the entries of DIRECTORY; a subdirectory is empty
FileSystems == [Names -> Nodes]

\* file systems whose entries are all of one kind
UniformFileSystems == {[n \in Names |-> k] : k \in Nodes}

\* os.path.join(a, b)
PathJoin(a, b) ==
    IF StartsWith(b, <<SLASH>>) THEN b
    ELSE IF a = <<>> \/ EndsWith(a, <<SLASH>>) THEN a \o b
    ELSE a \o <<SLASH>> \o b

\* the non-empty components of a path
Components(path) == SelectSeq(StrSplit(path, <<SLASH>>), LAMBDA c : c # <<>>)

\* what the path names, resolved from the working directory, which holds
\* DIRECTORY and nothing else; 'file/' names nothing
Lookup(path) ==
    LET comps == Components(path)
    IN IF StartsWith(path, <<SLASH>>) \/ comps = <<>> \/ comps[1] # DIRECTORY
       THEN NoNode
       ELSE IF Len(comps) = 1 THEN DirNode
       ELSE IF Len(comps) = 2 /\ comps[2] \in Names
            THEN IF EndsWith(path, <<SLASH>>) /\ fs[comps[2]].kind = "file"
                 THEN NoNode
                 ELSE fs[comps[2]]
       ELSE NoNode

\* os.path.exists(path)
PathExists(path) == Lookup(path).kind # "none"

\* os.path.isdir(path)
PathIsDir(path) == Lookup(path).kind = "dir"

\* the names os.listdir(path) returns, as a set
ListdirSet(path) ==
    IF PathIsDir(path) /\ Len(Components(path)) = 1
    THEN {n \in Names : fs[n].kind # "none"}
    ELSE {}

\* the orders os.listdir(path) may return them in: any
ListdirOrders(path) ==
    UNION {{o \in [1..Cardinality(S) -> S] :
               \A i, j \in DOMAIN o : i # j => o[i] # o[j]} :
           S \in {ListdirSet(path)}}

\* posixpath.splitext(path)[1]: from the last dot of the last component,
\* unless that dot leads the component
Extension(path) ==
    LET parts == StrSplit(path, <<SLASH>>)
        base  == parts[Len(parts)]
        dots  == {i \in 2..Len(base) : base[i] = DOT}
    IN IF dots = {} THEN <<>>
       ELSE SubSeq(base, CHOOSE i \in dots : \A j \in dots : j <= i, Len(base))

\* mimetypes.guess_type(path)[0], <<>> standing for None; of the types map,
\* '.html' and '.txt'
GuessType(path) ==
    LET ext == Extension(path)
    IN IF ext = <<46, 104, 116, 109, 108>> THEN S_TEXT_HTML
       ELSE IF ext = <<46, 116, 120, 116>> THEN S_TEXT_PLAIN
       ELSE <<>>

(* ------------------------------ responses ------------------------------ *)

\* an exception propagating out of a call
Raise(e) == [exc |-> e, branch |-> "", head |-> <<>>, body |-> <<>>]

NoResponse == Raise("unset")

Returned(r) == r.exc = ""

\* Content-Length counted in characters of the decoded text
compile_response_CharCount(code, comment, mimetype, body) ==
    LET head == S_HTTP10 \o FormatInt(code) \o <<SP>> \o comment \o CRLF
                \o S_CONTENT_TYPE \o mimetype \o CRLF
                \o S_CONTENT_LENGTH \o FormatInt(Len(Utf8DecodeReplace(body)))
                \o CRLF \o CRLF
    IN [exc |-> "", branch |-> "", head |-> head, body |-> body]

compile_response(code, comment, mimetype, body) ==
    LET head == S_HTTP10 \o FormatInt(code) \o <<SP>> \o comment \o CRLF
                \o S_CONTENT_TYPE \o mimetype \o CRLF
                \o S_CONTENT_LENGTH \o FormatInt(Len(body)) \o CRLF \o CRLF
    IN IF IsAscii(head)
       THEN [exc |-> "", branch |-> "", head |-> head, body |-> body]
       ELSE Raise("UnicodeEncodeError")

\* the response r, marked with the function that built it
From(r, f) == IF Returned(r) THEN [r EXCEPT !.branch = f] ELSE r

http_404(message) ==
    LET body == S_H2_OPEN \o message \o S_H2_CLOSE
    IN IF IsAscii(body)
       THEN From(compile_response(404, S_NOT_FOUND, S_TEXT_HTML, body), "http_404")
       ELSE Raise("UnicodeEncodeError")

send_file(path) ==
    LET node     == Lookup(path)
        guessed  == GuessType(path)
        mimetype == IF guessed = <<>> THEN S_OCTET_STREAM ELSE guessed
    IN IF node.kind = "none" THEN Raise("FileNotFoundError")
       ELSE IF node.kind = "dir" THEN Raise("IsADirectoryError")
       ELSE From(compile_response(200, S_OK, mimetype, node.content), "send_file")

\* a < b for Python strings: by code point, a proper prefix first
RECURSIVE StrLess(_, _)
StrLess(a, b) ==
    IF b = <<>> THEN FALSE
    ELSE IF a = <<>> THEN TRUE
    ELSE IF Head(a) # Head(b) THEN Head(a) < Head(b)
    ELSE StrLess(Tail(a), Tail(b))

\* a sort by name alone
TupleLess_NameOnly(x, y) == StrLess(x[2], y[2])

\* (isfile, name) tuples compare by isfile, False first, then by name
TupleLess(x, y) ==
    IF x[1] # y[1] THEN y[1] ELSE StrLess(x[2], y[2])

RECURSIVE InsertSorted(_, _)
InsertSorted(x, s) ==
    IF s = <<>> THEN <<x>>
    ELSE IF TupleLess(x, Head(s)) THEN <<x>> \o s
    ELSE <<Head(s)>> \o InsertSorted(x, Tail(s))

RECURSIVE SortTuples(_)
\* files.sort()
SortTuples(s) ==
    IF s = <<>> THEN <<>> ELSE InsertSorted(Head(s), SortTuples(Tail(s)))

\* file_line.format(path=path, filename=filename)
FileLine(filename) ==
    S_ANCHOR_OPEN \o filename \o S_QUOTE_GT \o filename \o S_ANCHOR_CLOSE

\* encoding_line.format(encoding=FILESYSTEM_ENCODING)
EncodingLine == S_META_OPEN \o FILESYSTEM_ENCODING \o S_QUOTE_GT

\* filename + ('' if isfile else '/')
Decorate(t) == IF t[1] THEN t[2] ELSE t[2] \o <<SLASH>>

\* a sort that was left out
SortedFiles_Unsorted(files) == files

\* files.sort()
SortedFiles(files) == SortTuples(files)

\* listing is the sequence os.listdir(path) returned
send_directory(path, listing) ==
    LET files    == [i \in 1..Len(listing) |->
                       <<~PathIsDir(PathJoin(path, listing[i])), listing[i]>>]
        sorted   == SortedFiles(files)
        shown    == [i \in 1..Len(sorted) |-> Decorate(sorted[i])]
        lines    == <<EncodingLine>> \o [i \in 1..Len(shown) |-> FileLine(shown[i])]
        document == Join(<<LF>>, lines)
    IN From(compile_response(200, S_OK, S_TEXT_HTML, Utf8Encode(document)),
            "send_directory")

\* 'Path {0} doesn\'t exist'.format(path)
NotFoundMessage(path) == S_PATH \o path \o S_DOESNT_EXIST

serve_static(req, directory, listing) ==
    LET path == PathJoin(directory, req.path)
    IN IF ~PathExists(path)
       THEN http_404(NotFoundMessage(path))
       ELSE IF PathIsDir(path)
            THEN LET index == PathJoin(path, INDEX_HTML)
                 IN IF PathExists(index)
                    THEN send_file(index)
                    ELSE send_directory(path, listing)
            ELSE send_file(path)

(* ------------------------------- requests ------------------------------ *)

EmptyDict == [k \in {} |-> <<>>]

\* d[key] = value
DictSet(d, key, value) ==
    [k \in DOMAIN d \cup {key} |-> IF k = key THEN value ELSE d[k]]

BadRequest(e, stage) ==
    [exc |-> e, stage |-> stage, method |-> <<>>, path |-> <<>>,
     http_version |-> <<>>, headers |-> EmptyDict]

NoRequest == BadRequest("unset", "")

RECURSIVE ParseHeaders(_, _)
\* the loop over headers_lines; "ValueError" when key, value = ... fails
ParseHeaders(lines, d) ==
    IF lines = <<>> THEN [exc |-> "", headers |-> d]
    ELSE IF Head(lines) = <<>> THEN ParseHeaders(Tail(lines), d)
    ELSE LET kv == StrSplit(Head(lines), HEADER_SEP)
         IN IF Len(kv) # 2 THEN [exc |-> "ValueError", headers |-> d]
            ELSE ParseHeaders(Tail(lines), DictSet(d, kv[1], kv[2]))

\* a request line split at runs of blanks, the target kept whole
Request_Lenient(text) ==
    LET lines  == ReSplitLines(text)
        fields == SelectSeq(StrSplit(lines[1], <<SP>>), LAMBDA f : f # <<>>)
    IN IF Len(fields) # 3 THEN BadRequest("ValueError", "request_line")
       ELSE LET hs == ParseHeaders(Tail(lines), EmptyDict)
            IN [exc          |-> hs.exc,
                stage        |-> IF hs.exc = "" THEN "" ELSE "headers",
                method       |-> fields[1],
                path         |-> Unquote(fields[2]),
                http_version |-> fields[3],
                headers      |-> hs.headers]

\* Request.__init__; stage names the statement that raised
Request(text) ==
    LET lines  == ReSplitLines(text)
        fields == StrSplit(lines[1], <<SP>>)
    IN IF Len(fields) # 3 THEN BadRequest("ValueError", "request_line")
       ELSE LET hs == ParseHeaders(Tail(lines), EmptyDict)
            IN [exc          |-> hs.exc,
                stage        |-> IF hs.exc = "" THEN "" ELSE "headers",
                method       |-> fields[1],
                path         |-> Unquote(Drop(fields[2], 1)),
                http_version |-> fields[3],
                headers      |-> hs.headers]

(* ------------------------- what a client sends ------------------------- *)

HexDigit(v) == IF v < 10 THEN 48 + v ELSE 55 + v

RECURSIVE QuoteBytes(_)
QuoteBytes(b) ==
    IF b = <<>> THEN <<>>
    ELSE (IF Head(b) < 128 THEN <<Head(b)>>
          ELSE <<PERCENT, HexDigit(Head(b) \div 16), HexDigit(Head(b) % 16)>>)
         \o QuoteBytes(Tail(b))

\* the request target a client sends for a name: its utf-8 bytes, those
\* >= 0x80 percent-encoded
Quote(name) == QuoteBytes(Utf8Encode(name))

\* 'G', a method token
METHOD == <<71>>

\* 'H', a version token
VERSION == <<72>>

\* 'Z', '/Z/', '/%5A', '/%zz', '/%C3', '/Z\tZ', '/Z Z', b'/\xe9'
OddTargets ==
    { <<90>>, <<47, 90, 47>>, <<47, 37, 53, 65>>, <<47, 37, 122, 122>>,
      <<47, 37, 67, 51>>, <<47, 90, HT, 90>>, <<47, 90, SP, 90>>, <<47, 233>> }

Targets ==
    {<<SLASH>> \o Quote(n) : n \in Names \cup {<<>>, MISSING}} \cup OddTargets

\* what separates the tokens of a request line: ' ', '  ', '\t'
Separators == {<<SP>>, <<SP, SP>>, <<HT>>}

RequestLine(s1, target, s2) == METHOD \o s1 \o target \o s2 \o VERSION

RequestLines ==
    {RequestLine(<<SP>>, t, <<SP>>) : t \in Targets}
    \cup {RequestLine(s1, <<SLASH>>, s2) : s1 \in Separators, s2 \in Separators}
    \cup {METHOD}

\* 'K: v', 'K: v: w', 'Kv'
HeaderLines ==
    { <<75, 58, 32, 118>>, <<75, 58, 32, 118, 58, 32, 119>>, <<75, 118>> }

HeaderBlocks == UNION {[1..n -> HeaderLines] : n \in 0..MaxHeaders}

\* line ends between lines, and what ends the header block
LineEnds == {CRLF, <<LF>>}

BlockEnds == {TERMINATOR, <<LF, LF>>}

\* bytes sent after the header block: none, or 'x'
Bodies == {<<>>, <<120>>}

StreamOf(line, block, eol, end, body) ==
    line \o Concat([i \in 1..Len(block) |-> eol \o block[i]]) \o end \o body

\* 'G / H'
PlainLine == RequestLine(<<SP>>, <<SLASH>>, <<SP>>)

\* what a peer sends on one connection before it closes its side: any
\* request line without headers, or the plain one with any header block
Streams ==
    {StreamOf(l, <<>>, CRLF, t, x) :
        l \in RequestLines, t \in BlockEnds, x \in Bodies}
    \cup {StreamOf(PlainLine, b, e, t, x) :
             b \in HeaderBlocks, e \in LineEnds, t \in BlockEnds, x \in Bodies}

\* the decoded paths serve_static is called with
DecodedPaths ==
    {<<>>, MISSING} \cup Names \cup {n \o <<SLASH>> : n \in Names}

(* ---------------------------- the server loop -------------------------- *)

\* what sock.recv(BUFLEN) may return: some bytes that arrived, at most
\* BUFLEN; b'' once the peer has sent everything and closed
RecvChunks(w) ==
    IF w = <<>> THEN {<<>>}
    ELSE {Take(w, n) : n \in 1..Min(BUFLEN, Len(w))}

\* data += sock.recv(BUFLEN)
Accumulate(buf, chunk) == buf \o chunk

\* a test of the end of the buffer only
ReadDone_AtEnd(buf) == EndsWith(buf, TERMINATOR)

\* if b'\r\n\r\n' in data: break
ReadDone(buf) == Contains(buf, TERMINATOR)

Init ==
    /\ fs \in UniformFileSystems
    /\ pc = "accept"
    /\ stream = <<>>
    /\ wire = <<>>
    /\ data = <<>>
    /\ split = FALSE
    /\ request = NoRequest
    /\ response = NoResponse
    /\ prevPath = <<>>
    /\ prevResp = NoResponse

\* clientsock, addr = serversock.accept()
Accept ==
    /\ pc = "accept"
    /\ \E s \in Streams :
          /\ stream' = s
          /\ wire' = s
    /\ data' = <<>>
    /\ split' = FALSE
    /\ request' = NoRequest
    /\ response' = NoResponse
    /\ pc' = "recv"
    /\ UNCHANGED <<fs, prevPath, prevResp>>

\* one turn of the loop of read_data_from_socket; split records that the
\* terminator straddles the boundary between this chunk and the buffer.
\* Once the peer has closed, recv returns b'' and the turn changes nothing
Recv ==
    /\ pc = "recv"
    /\ \E chunk \in RecvChunks(wire) :
          /\ data' = Accumulate(data, chunk)
          /\ wire' = Drop(wire, Len(chunk))
          /\ split' = /\ ReadDone(data')
                      /\ \E i \in 1..Len(data) :
                            /\ i + 3 > Len(data)
                            /\ i + 3 <= Len(data')
                            /\ SubSeq(data', i, i + 3) = TERMINATOR
    /\ pc' = IF ReadDone(data') THEN "handle" ELSE "recv"
    /\ UNCHANGED <<fs, stream, request, response, prevPath, prevResp>>

\* the loop body of static_server from the decoding of the buffer to
\* sendall: decode, parse, resolve, send. response.exc names the exception
\* that left the loop, and with it static_server and main: nothing catches
\* it
Handle ==
    /\ pc = "handle"
    /\ \E req \in {IF IsAscii(data) THEN Request(data) ELSE NoRequest} :
          \E listing \in ListdirOrders(PathJoin(DIRECTORY, req.path)) :
             \E resp \in {IF ~IsAscii(data) THEN Raise("UnicodeDecodeError")
                          ELSE IF req.exc # "" THEN Raise(req.exc)
                          ELSE serve_static(req, DIRECTORY, listing)} :
                /\ request' = req
                /\ response' = resp
                /\ pc' = IF Returned(resp) THEN "close" ELSE "crashed"
    /\ UNCHANGED <<fs, stream, wire, data, split, prevPath, prevResp>>

\* clientsock.close(), and back to accept: the names of the loop body are
\* bound anew by the next turn
Close ==
    /\ pc = "close"
    /\ pc' = "accept"
    /\ stream' = <<>>
    /\ wire' = <<>>
    /\ data' = <<>>
    /\ split' = FALSE
    /\ request' = NoRequest
    /\ response' = NoResponse
    /\ UNCHANGED <<fs, prevPath, prevResp>>

Next == Accept \/ Recv \/ Handle \/ Close

Spec == Init /\ [][Next]_vars

\* the one thread of the server runs: a turn of the read loop that changes
\* the state is taken. The read loop is all the fairness says anything of:
\* when a peer connects is up to the peers, and Handle and Close cannot be
\* taken while the loop reads
FairSpec == Spec /\ WF_vars(Recv)

(* --------------------------- resolution alone -------------------------- *)

InitServe ==
    /\ fs \in FileSystems
    /\ pc = "accept"
    /\ stream = <<>>
    /\ wire = <<>>
    /\ data = <<>>
    /\ split = FALSE
    /\ request = NoRequest
    /\ response = NoResponse
    /\ prevPath = <<>>
    /\ prevResp = NoResponse

ParsedRequest(path) ==
    [exc |-> "", stage |-> "", method |-> METHOD, path |-> path,
     http_version |-> VERSION, headers |-> EmptyDict]

\* a call of serve_static with a new request
Resolve ==
    /\ \E p \in DecodedPaths :
          \E listing \in ListdirOrders(PathJoin(DIRECTORY, p)) :
             /\ request' = ParsedRequest(p)
             /\ response' = serve_static(ParsedRequest(p), DIRECTORY, listing)
    /\ prevPath' = <<>>
    /\ prevResp' = NoResponse
    /\ UNCHANGED <<fs, pc, stream, wire, data, split>>

\* a second call with the request of the call before, the file system
\* unchanged; prevPath and prevResp keep what the call before was given
\* and returned
ResolveAgain ==
    /\ request # NoRequest
    /\ request' = request
    /\ \E listing \in ListdirOrders(PathJoin(DIRECTORY, request.path)) :
          response' = serve_static(request, DIRECTORY, listing)
    /\ prevPath' = request.path
    /\ prevResp' = response
    /\ UNCHANGED <<fs, pc, stream, wire, data, split>>

NextServe == Resolve \/ ResolveAgain

ServeSpec == InitServe /\ [][NextServe]_vars

(* ------------------------------- claims -------------------------------- *)

\* a connection has been handled: parsed and resolved, or left by an
\* exception
Handled == pc \in {"close", "crashed"}

\* the buffer was decoded and given to Request
Parsed == Handled /\ IsAscii(data)

\* the first line of the buffer: up to the first LF, less a CR before it
FirstLine(text) ==
    LET lfs == {i \in 1..Len(text) : text[i] = LF}
        end == IF lfs = {} THEN Len(text) + 1
               ELSE CHOOSE i \in lfs : \A j \in lfs : i <= j
        raw == SubSeq(text, 1, end - 1)
    IN IF lfs # {} /\ EndsWith(raw, <<CR>>) THEN SubSeq(raw, 1, Len(raw) - 1) ELSE raw

Whitespace == {HT, LF, 11, 12, CR, SP}

\* the i-th of a set of positions, in ascending order
Nth(S, i) == CHOOSE x \in S : Cardinality({y \in S : y < x}) = i - 1

\* the tokens of a line: its maximal runs of non-blank characters
WsTokens(line) ==
    LET starts == {i \in 1..Len(line) :
                     /\ line[i] \notin Whitespace
                     /\ (i = 1 \/ line[i - 1] \in Whitespace)}
        EndOf(i) == CHOOSE j \in i..Len(line) :
                      /\ \A k \in i..j : line[k] \notin Whitespace
                      /\ (j = Len(line) \/ line[j + 1] \in Whitespace)
    IN [n \in 1..Cardinality(starts) |->
          SubSeq(line, Nth(starts, n), EndOf(Nth(starts, n)))]

\* a token less one leading '/'
StripSlash(tok) == IF StartsWith(tok, <<SLASH>>) THEN Drop(tok, 1) ELSE tok

Spaces(line) == {i \in 1..Len(line) : line[i] = SP}

HeaderLinesOf(text) ==
    SelectSeq(Tail(ReSplitLines(text)), LAMBDA l : l # <<>>)

\* where ': ' first occurs in a line that contains it
FirstSep(line) ==
    CHOOSE i \in 1..(Len(line) - 1) :
        /\ SubSeq(line, i, i + 1) = HEADER_SEP
        /\ \A j \in 1..(i - 1) : SubSeq(line, j, j + 1) # HEADER_SEP

KeyOf(line) == SubSeq(line, 1, FirstSep(line) - 1)

ValueOf(line) == SubSeq(line, FirstSep(line) + 2, Len(line))

\* C6: when every header line contains ': ', the parse succeeds and each
\* line is stored split at its first ': ' (the last line of a key wins)
C6_FirstOccurrence ==
    (Parsed /\ request.stage # "request_line") =>
      LET hl == HeaderLinesOf(data)
      IN (\A i \in 1..Len(hl) : Contains(hl[i], HEADER_SEP)) =>
           /\ request.exc = ""
           /\ \A i \in 1..Len(hl) :
                (\A j \in (i + 1)..Len(hl) : KeyOf(hl[j]) # KeyOf(hl[i])) =>
                   /\ KeyOf(hl[i]) \in DOMAIN request.headers
                   /\ request.headers[KeyOf(hl[i])] = ValueOf(hl[i])

\* C7: whatever a connection raised, the server is still running
C7_CrashIsolation == pc # "crashed"

\* C9: the loop is left exactly when the buffer contains the terminator,
\* and the buffer is what arrived so far, in order
C9_ReadUntilTerminator ==
    /\ pc = "recv" => ~Contains(data, TERMINATOR)
    /\ pc = "handle" => Contains(data, TERMINATOR)
    /\ pc \in {"recv", "handle"} => data \o wire = stream

\* the loop was left by a chunk that completed a terminator begun in an
\* earlier chunk, with bytes of the peer still to come
C9_Witness == pc = "handle" /\ split /\ wire # <<>>

\* C10: the read loop ends on every connection
C10_ReadLoopEnds == (pc = "recv") ~> (pc # "recv")

\* serve_static has been called
Resolved == request # NoRequest /\ response # NoResponse /\ request.exc = ""

Candidate == PathJoin(DIRECTORY, request.path)

\* 'HTTP/1.0 {code} {comment}\r\nContent-Type: {mimetype}\r\n'
StatusAndType(code, comment, mimetype) ==
    S_HTTP10 \o code \o <<SP>> \o comment \o CRLF \o S_CONTENT_TYPE \o mimetype \o CRLF

\* '404'
S_404 == <<52, 48, 52>>

\* '200'
S_200 == <<50, 48, 48>>

\* C1: a candidate that does not exist gets, by return, 404 Not Found,
\* text/html and the body <h2>Path {candidate} doesn't exist</h2>
C1_NotFound404 ==
    (Resolved /\ ~PathExists(Candidate)) =>
      /\ Returned(response)
      /\ StartsWith(response.head, StatusAndType(S_404, S_NOT_FOUND, S_TEXT_HTML))
      /\ response.body = Utf8Encode(S_H2_OPEN \o S_PATH \o Candidate
                                     \o S_DOESNT_EXIST \o S_H2_CLOSE)

\* C2: for a candidate that is a directory, index.html is returned with
\* 200 and its guessed type when it exists, the listing when it does not
C2_IndexOrListing ==
    (Resolved /\ PathIsDir(Candidate)) =>
      IF PathExists(PathJoin(Candidate, INDEX_HTML))
      THEN /\ Returned(response)
           /\ response.branch = "send_file"
           /\ StartsWith(response.head, StatusAndType(S_200, S_OK, S_TEXT_HTML))
           /\ response.body = Lookup(PathJoin(Candidate, INDEX_HTML)).content
      ELSE /\ Returned(response)
           /\ response.branch = "send_directory"

\* the value of a string of decimal digits
RECURSIVE DecimalValue(_)
DecimalValue(ds) ==
    IF ds = <<>> THEN 0
    ELSE 10 * DecimalValue(SubSeq(ds, 1, Len(ds) - 1)) + (ds[Len(ds)] - 48)

\* where the Content-Length header lines of a head start
ContentLengthAt(head) ==
    {i \in 1..(Len(head) - Len(S_CONTENT_LENGTH) + 1) :
        /\ SubSeq(head, i, i + Len(S_CONTENT_LENGTH) - 1) = S_CONTENT_LENGTH
        /\ (i = 1 \/ (i > 2 /\ SubSeq(head, i - 2, i - 1) = CRLF))}

\* the digits of the one Content-Length header: up to the next CR
ContentLengthDigits(head) ==
    LET from == (CHOOSE i \in ContentLengthAt(head) : TRUE) + Len(S_CONTENT_LENGTH)
        to   == CHOOSE j \in from..Len(head) :
                   /\ head[j] = CR
                   /\ \A k \in from..(j - 1) : head[k] # CR
    IN SubSeq(head, from, to - 1)

\* the bytes the response is made of, from the file system and the request
SourceBytes ==
    IF response.branch = "http_404"
    THEN S_H2_OPEN \o NotFoundMessage(Candidate) \o S_H2_CLOSE
    ELSE IF PathIsDir(Candidate)
         THEN Lookup(PathJoin(Candidate, INDEX_HTML)).content
         ELSE Lookup(Candidate).content

\* C3: a response's head ends with the blank line and carries one
\* Content-Length, a decimal number equal to the length of the body in
\* bytes, and the body is the bytes it was compiled from
C3_ContentLength ==
    (Resolved /\ Returned(response)) =>
      /\ EndsWith(response.head, TERMINATOR)
      /\ Cardinality(ContentLengthAt(response.head)) = 1
      /\ \A i \in 1..Len(ContentLengthDigits(response.head)) :
            ContentLengthDigits(response.head)[i] \in 48..57
      /\ ContentLengthDigits(response.head) # <<>>
      /\ DecimalValue(ContentLengthDigits(response.head)) = Len(response.body)
      /\ IF response.branch = "send_directory"
         THEN /\ StartsWith(response.body, EncodingLine)
              /\ Utf8Encode(Utf8DecodeReplace(response.body)) = response.body
         ELSE response.body = SourceBytes

\* a listing whose text has a two-byte character was returned
C3_Witness ==
    /\ Resolved
    /\ Returned(response)
    /\ response.branch = "send_directory"
    /\ ~IsAscii(response.body)
    /\ Len(Utf8DecodeReplace(response.body)) < Len(response.body)

\* the name shown for an entry of the candidate directory
Shown(name) ==
    IF PathIsDir(PathJoin(Candidate, name)) THEN name \o <<SLASH>> ELSE name

\* a sequence of every entry once, directories before files, each group
\* in ascending order
ListingOrder(L) ==
    /\ Len(L) = Cardinality(ListdirSet(Candidate))
    /\ {L[i] : i \in 1..Len(L)} = ListdirSet(Candidate)
    /\ \A i, j \in 1..Len(L) :
          i < j =>
            LET di == PathIsDir(PathJoin(Candidate, L[i]))
                dj == PathIsDir(PathJoin(Candidate, L[j]))
            IN /\ di \/ ~dj
               /\ (di = dj) => StrLess(L[i], L[j])

\* C4: a listing is the charset line followed by one anchor per entry of
\* the directory, directories first, names ascending in each group, a
\* directory's name, and only a directory's, followed by '/'
C4_ListingOrder ==
    (Resolved /\ Returned(response) /\ response.branch = "send_directory") =>
      \E L \in ListdirOrders(Candidate) :
         /\ ListingOrder(L)
         /\ response.body =
              Utf8Encode(Join(<<LF>>,
                 <<EncodingLine>> \o [i \in 1..Len(L) |-> FileLine(Shown(L[i]))]))

\* a listing of a directory that holds a file whose name sorts before
\* the name of a directory it holds too
C4_Witness ==
    /\ Resolved
    /\ Returned(response)
    /\ response.branch = "send_directory"
    /\ \E f, d \in ListdirSet(Candidate) :
          /\ ~PathIsDir(PathJoin(Candidate, f))
          /\ PathIsDir(PathJoin(Candidate, d))
          /\ StrLess(f, d)

\* C8: a second call with the same request returns what the first did
C8_Idempotent ==
    prevResp # NoResponse => (request.path = prevPath /\ response = prevResp)

\* a listing of two entries or more was generated twice
C8_Witness ==
    /\ prevResp # NoResponse
    /\ Returned(response)
    /\ response.branch = "send_directory"
    /\ Cardinality(ListdirSet(Candidate)) >= 2

====
